---- MODULE Spec2Model ----
(***************************************************************************)
(* A model of js-functions.js: dotted-path lookup (objectIndex), the Array *)
(* helpers findIndex / remove / replace / containsString, String.contains, *)
(* String.format, the toInt methods and Parse.int.                         *)
(*                                                                         *)
(* JavaScript values are records of one shape, so that any two of them can *)
(* be compared:                                                            *)
(*   t  the kind: "undefined" "null" "boolean" "number" "NaN" "string"     *)
(*      "object" "function" (and "throw" for a raised exception)           *)
(*   n  the number, the boolean (0/1), or an object's identity (reference) *)
(*   s  a string's text (a sequence of one-character strings), a           *)
(*      function's or an exception's name                                  *)
(*   p  an object's own properties, a function from keys to values         *)
(* A string is a sequence of one-character strings; array index i of the   *)
(* source is position i + 1 of a sequence here.                            *)
(*                                                                         *)
(* Line 180 of the source opens the NUMBER section with `* NUMBER */', a   *)
(* comment that lost its `/'; the functions are modelled as they are       *)
(* written, with that line read as the comment it was meant to be.         *)
(***************************************************************************)
EXTENDS Integers, Sequences, FiniteSets, TLC

VARIABLES pc, self, before, op, args, ret

vars == <<pc, self, before, op, args, ret>>

\* ------------------------------------------------------------ values

V(t, n, s, p) == [t |-> t, n |-> n, s |-> s, p |-> p]

Undefined == V("undefined", 0, <<>>, <<>>)

Null == V("null", 0, <<>>, <<>>)

False == V("boolean", 0, <<>>, <<>>)

True == V("boolean", 1, <<>>, <<>>)

NaN == V("NaN", 0, <<>>, <<>>)

Num(n) == V("number", n, <<>>, <<>>)

Str(s) == V("string", 0, s, <<>>)

Obj(ref, props) == V("object", ref, <<>>, props)

\* A function value: the library's own methods, named by their property key.
Fn(name) == V("function", 0, name, <<>>)

\* An exception raised by the call.
Throw(name) == V("throw", 0, name, <<>>)

TypeError == Throw(<<"T", "y", "p", "e", "E", "r", "r", "o", "r">>)

\* The typeof operator.
TypeOf(v) ==
    CASE v.t = "null" -> "object"
      [] v.t = "NaN" -> "number"
      [] OTHER -> v.t

\* ToBoolean, as used by `?:' and `if'.
Truthy(v) ==
    CASE v.t \in {"undefined", "null", "NaN"} -> FALSE
      [] v.t \in {"boolean", "number"} -> v.n # 0
      [] v.t = "string" -> v.s # <<>>
      [] OTHER -> TRUE

\* The === operator: NaN equals nothing, objects are equal when they are the
\* same object (same reference), primitives when they have the same value.
StrictEq(a, b) == a.t # "NaN" /\ a = b

\* ------------------------------------------------------------ keys

ID == <<"i", "d">>

KEY == <<"k", "e", "y">>

UID == <<"u", "i", "d">>

INDEX == <<"i", "n", "d", "e", "x">>

CONTAINS == <<"c", "o", "n", "t", "a", "i", "n", "s">>

TOINT == <<"t", "o", "I", "n", "t">>

FORMAT == <<"f", "o", "r", "m", "a", "t">>

ISJSON == <<"i", "s", "J", "S", "O", "N">>

LENGTH == <<"l", "e", "n", "g", "t", "h">>

\* What the library installs on the built-in prototypes.  Every value that
\* has properties inherits Object.prototype.index.
ObjectProto == {INDEX}

StringProto == {CONTAINS, TOINT, ISJSON, FORMAT}

NumberProto == {TOINT}

\* The property read v[k] on a value that is neither undefined nor null: an
\* own property first, then the prototype chain.  Of the prototypes only the
\* members this library installs are modelled, and a string's length.
Get(v, k) ==
    CASE v.t \in {"object"} /\ k \in DOMAIN v.p -> v.p[k]
      [] v.t = "string" /\ k = LENGTH -> Num(Len(v.s))
      [] v.t = "string" /\ k \in StringProto -> Fn(k)
      [] v.t \in {"number", "NaN"} /\ k \in NumberProto -> Fn(k)
      [] k \in ObjectProto -> Fn(k)
      [] OTHER -> Undefined

\* ------------------------------------------------------------ objectIndex

\* String.prototype.split('.'): the segments between the dots.
RECURSIVE SplitFrom(_, _, _)
SplitFrom(s, i, cur) ==
    IF i > Len(s) THEN <<cur>>
    ELSE IF s[i] = "." THEN <<cur>> \o SplitFrom(s, i + 1, <<>>)
    ELSE SplitFrom(s, i + 1, Append(cur, s[i]))

Split(s) == SplitFrom(s, 1, <<>>)

\* The reducer of objectIndex: obj ? obj[i] : undefined.
Step(obj, i) == IF Truthy(obj) THEN Get(obj, i) ELSE Undefined

RECURSIVE Reduce(_, _)
Reduce(segs, acc) ==
    IF segs = <<>> THEN acc ELSE Reduce(Tail(segs), Step(acc, Head(segs)))

\* objectIndex(object, index), index the text of a string.
objectIndex(object, index) == Reduce(Split(index), object)

\* ------------------------------------------------------------ the heap

MaxLen == 3

\* The objects of the modelled program.  o1 and o2 are two objects with the
\* same id, o4 has no id, o5 has an id no other object has, and o6 also has
\* a property named uid that holds o2.
o1 == Obj(1, (ID :> Num(1)) @@ (KEY :> Str(<<"a">>)))

o2 == Obj(2, (ID :> Num(1)) @@ (KEY :> Str(<<"b">>)))

o3 == Obj(3, (ID :> Num(2)) @@ (KEY :> Str(<<"a">>)))

o4 == Obj(4, (KEY :> Str(<<"b">>)))

o5 == Obj(5, (ID :> Num(3)) @@ (KEY :> Str(<<"c">>)))

o6 == Obj(6, (ID :> Num(3)) @@ (UID :> o2))

\* What an array may hold.
Elements == {o1, o2, o3, o4, Null, Str(<<"a">>)}

\* The `object' argument of findIndex, remove and replace.
Templates == {o1, o2, o3, o4, o5, o6}

\* The `uid' argument: left out, 'id', 'key'.
Uids == {Undefined, Str(ID), Str(KEY)}

RECURSIVE SeqsUpTo(_, _)
SeqsUpTo(S, n) ==
    IF n = 0 THEN {<<>>}
    ELSE LET shorter == SeqsUpTo(S, n - 1)
         IN shorter \cup {Append(q, e) : q \in {r \in shorter : Len(r) = n - 1}, e \in S}

Arrays == SeqsUpTo(Elements, MaxLen)

\* ------------------------------------------------------------ Array.prototype

\* uid = typeof uid !== 'undefined' ? uid : 'id', as the text of the path.
UidOf(uid) == IF TypeOf(uid) # "undefined" THEN uid.s ELSE ID

\* The test inside findIndex's forEach callback.
ItemMatches(item, object, uid) ==
    /\ TypeOf(item) = "object"
    /\ TypeOf(objectIndex(item, uid)) # "undefined"
    /\ StrictEq(objectIndex(item, uid), objectIndex(object, uid))

\* The forEach of findIndex from 0-based position i on: every matching
\* element overwrites foundIndex.
RECURSIVE FindLoop(_, _, _, _, _)
FindLoop(arr, object, uid, i, foundIndex) ==
    IF i >= Len(arr) THEN foundIndex
    ELSE FindLoop(arr, object, uid, i + 1,
                  IF ItemMatches(arr[i + 1], object, uid) THEN Num(i) ELSE foundIndex)

\* findIndex with foundIndex starting at 0 instead of false.
findIndex_fromZero(arr, object, uidArg) ==
    LET uid == UidOf(uidArg)
    IN IF TypeOf(objectIndex(object, uid)) = "undefined" THEN False
       ELSE FindLoop(arr, object, uid, 0, Num(0))

\* findIndex written naively: the identity values are compared as they are,
\* with no test for an undefined one, in the template or in the element.
RECURSIVE NaiveLoop(_, _, _, _, _)
NaiveLoop(arr, object, uid, i, foundIndex) ==
    IF i >= Len(arr) THEN foundIndex
    ELSE NaiveLoop(arr, object, uid, i + 1,
                   IF /\ TypeOf(arr[i + 1]) = "object"
                      /\ StrictEq(objectIndex(arr[i + 1], uid), objectIndex(object, uid))
                   THEN Num(i) ELSE foundIndex)

findIndex_naive(arr, object, uidArg) == NaiveLoop(arr, object, UidOf(uidArg), 0, False)

findIndex(arr, object, uidArg) ==
    LET uid == UidOf(uidArg)
    IN IF TypeOf(objectIndex(object, uid)) = "undefined" THEN False
       ELSE FindLoop(arr, object, uid, 0, False)

\* ToInteger of a splice position: an index, or false (which counts as 0).
ToInteger(v) == IF v.t = "number" THEN v.n ELSE 0

Min(a, b) == IF a < b THEN a ELSE b

\* Array.prototype.splice(start, deleteCount, ...items) for start >= 0: the
\* array afterwards.  start and deleteCount are clamped to the array.
Splice(arr, start, deleteCount, items) ==
    LET from == Min(start, Len(arr))
        cnt == Min(deleteCount, Len(arr) - from)
    IN SubSeq(arr, 1, from) \o items \o SubSeq(arr, from + cnt + 1, Len(arr))

\* The receiver itself, as a return value (`return this').
ThisArray == V("this", 0, <<>>, <<>>)

\* Array.prototype.remove: <<the array afterwards, the value returned>>.
remove(arr, object, uidArg) ==
    LET uid == IF TypeOf(uidArg) # "undefined" THEN uidArg ELSE Str(ID)
    IN IF Truthy(findIndex(arr, object, uid))
       THEN <<Splice(arr, ToInteger(findIndex(arr, object, uid)), 1, <<>>), True>>
       ELSE <<arr, False>>

\* Array.prototype.replace: the test reads findIndex(object.uid), the
\* property named uid of the object, with no second argument.
replace(arr, object, uidArg) ==
    LET uid == IF TypeOf(uidArg) # "undefined" THEN uidArg ELSE Str(ID)
    IN IF Truthy(findIndex(arr, Get(object, UID), Undefined))
       THEN <<Splice(arr, ToInteger(findIndex(arr, object, uid)), 1, <<object>>), ThisArray>>
       ELSE <<Append(arr, object), ThisArray>>

\* ------------------------------------------------------------ String.contains

\* String.prototype.toLowerCase, on the letters the model uses.
LowerChar(c) ==
    CASE c = "A" -> "a"
      [] c = "B" -> "b"
      [] OTHER -> c

toLowerCase(s) == [i \in 1..Len(s) |-> LowerChar(s[i])]

\* String.prototype.indexOf(q): the first 0-based position of q in s, or -1.
indexOf(s, q) ==
    LET at == {i \in 0..(Len(s) - Len(q)) : SubSeq(s, i + 1, i + Len(q)) = q}
    IN IF at = {} THEN -1 ELSE CHOOSE i \in at : \A j \in at : i <= j

\* String.prototype.contains(query, caseSensitive) on the text s.
contains(s, query, caseSensitiveArg) ==
    LET caseSensitive ==
            IF TypeOf(caseSensitiveArg) # "undefined" THEN caseSensitiveArg ELSE False
    IN IF Truthy(caseSensitive)
       THEN indexOf(s, query) # -1
       ELSE indexOf(toLowerCase(s), toLowerCase(query)) # -1

\* An array as a value: its elements are in p.
Arr(items) == V("array", 0, <<>>, items)

\* The forEach of containsString from position i (from 1) on.  Reading
\* item.contains of null or undefined raises a TypeError, which ends the
\* call; so does calling a contains that is no function.
RECURSIVE ContainsLoop(_, _, _, _, _)
ContainsLoop(arr, query, caseSensitive, i, itemsFound) ==
    IF i > Len(arr) THEN Arr(itemsFound)
    ELSE LET item == arr[i]
         IN IF item.t \in {"undefined", "null"} THEN TypeError
            ELSE IF TypeOf(Get(item, CONTAINS)) = "undefined"
            THEN ContainsLoop(arr, query, caseSensitive, i + 1, itemsFound)
            ELSE IF ~(item.t = "string" /\ Get(item, CONTAINS) = Fn(CONTAINS))
            THEN TypeError
            ELSE ContainsLoop(arr, query, caseSensitive, i + 1,
                              IF contains(item.s, query, caseSensitive)
                              THEN Append(itemsFound, item) ELSE itemsFound)

\* Array.prototype.containsString(query, caseSensitive), query a text.
containsString(arr, query, caseSensitiveArg) ==
    LET caseSensitive ==
            IF TypeOf(caseSensitiveArg) # "undefined" THEN caseSensitiveArg ELSE False
    IN ContainsLoop(arr, query, caseSensitive, 1, <<>>)

\* The arrays containsString is called on: strings, a number, an object,
\* null and undefined.
MixedElements == {Str(<<"a", "B">>), Str(<<"b">>), Num(7), o4, Null, Undefined}

MixedArrays == SeqsUpTo(MixedElements, MaxLen)

Queries == {<<>>, <<"a">>, <<"b">>, <<"B">>, <<"A", "b">>}

Flags == {Undefined, False, True}

\* ------------------------------------------------------------ Object.index

\* Object.prototype.index: objectIndex(this, index).
indexMethod(this, index) == objectIndex(this, index)

MaxSegs == 3

A == <<"a">>

B == <<"b">>

\* The mappings looked into: nested to depth 3, with a falsy, a null and a
\* string value among the intermediate ones.
m1 == Obj(11, (A :> Obj(12, (B :> Num(1)))))

m2 == Obj(13, (A :> Obj(14, (B :> Obj(15, (A :> Num(0)))))))

m3 == Obj(16, (A :> Num(0)) @@ (B :> Null))

m4 == Obj(17, (A :> Str(<<"x", "y">>)) @@ (B :> Obj(18, <<>>)))

m5 == Obj(19, <<>>)

Mappings == {m1, m2, m3, m4, m5}

\* The segments of a path: two keys, the key 'index', the empty key.
Segments == {A, B, INDEX, <<>>}

SegLists == SeqsUpTo(Segments, MaxSegs) \ {<<>>}

\* The segments joined by dots: the text of the path.
RECURSIVE JoinDots(_)
JoinDots(segs) ==
    IF Len(segs) = 1 THEN segs[1]
    ELSE segs[1] \o <<".">> \o JoinDots(Tail(segs))

\* ------------------------------------------------------------ String.format

MaxParts == 2

MaxArgs == 2

Digits == <<"0", "1", "2", "3", "4", "5", "6", "7", "8", "9">>

\* The source of the pattern new RegExp('\\{' + i + '\\}', 'gi'), i < 10.
Placeholder(i) == <<"{", Digits[i + 1], "}">>

\* String.prototype.replace(regexp, text) with a global pattern, from
\* position i (from 1) on: every match, left to right, is replaced; the
\* text put in is not searched again.  The text holds no `$'.
RECURSIVE ReplaceAll(_, _, _, _)
ReplaceAll(s, pat, text, i) ==
    IF i > Len(s) THEN <<>>
    ELSE IF i + Len(pat) - 1 <= Len(s) /\ SubSeq(s, i, i + Len(pat) - 1) = pat
    THEN text \o ReplaceAll(s, pat, text, i + Len(pat))
    ELSE <<s[i]>> \o ReplaceAll(s, pat, text, i + 1)

\* The for loop of format from argument i (from 0) on.
RECURSIVE FormatLoop(_, _, _)
FormatLoop(formatted, arguments, i) ==
    IF i >= Len(arguments) THEN formatted
    ELSE FormatLoop(ReplaceAll(formatted, Placeholder(i), arguments[i + 1], 1),
                    arguments, i + 1)

\* String.prototype.format on the text this, the arguments texts.
format(this, arguments) == FormatLoop(this, arguments, 0)

Pieces == {<<"a">>, Placeholder(0), Placeholder(1), Placeholder(2)}

RECURSIVE Concat(_)
Concat(parts) == IF parts = <<>> THEN <<>> ELSE Head(parts) \o Concat(Tail(parts))

FormatTemplates == {Concat(parts) : parts \in SeqsUpTo(Pieces, MaxParts)}

FormatArgs == SeqsUpTo(Pieces \cup {<<>>}, MaxArgs)

\* ------------------------------------------------------------ toInt, Parse.int

MaxText == 3

DigitValue(c) == (CHOOSE i \in 1..10 : Digits[i] = c) - 1

IsDigit(c) == \E i \in 1..10 : Digits[i] = c

IsSpace(c) == c = " "

RECURSIVE SkipSpaces(_)
SkipSpaces(s) == IF s # <<>> /\ IsSpace(Head(s)) THEN SkipSpaces(Tail(s)) ELSE s

\* The value of the leading decimal digits of s after acc, and whether
\* there were any.
RECURSIVE LeadingDigits(_, _, _)
LeadingDigits(s, acc, any) ==
    IF s # <<>> /\ IsDigit(Head(s))
    THEN LeadingDigits(Tail(s), 10 * acc + DigitValue(Head(s)), TRUE)
    ELSE <<acc, any>>

\* parseInt(text) with no radix, on texts that do not start with 0x: white
\* space is skipped, a sign is read, then the decimal digits; NaN if none.
parseInt(s) ==
    LET t == SkipSpaces(s)
        neg == t # <<>> /\ Head(t) = "-"
        u == IF t # <<>> /\ Head(t) \in {"-", "+"} THEN Tail(t) ELSE t
        d == LeadingDigits(u, 0, FALSE)
    IN IF ~d[2] THEN NaN ELSE Num(IF neg THEN 0 - d[1] ELSE d[1])

\* String.prototype.toInt: parseInt(this) ? parseInt(this) : 0.
stringToInt(s) == IF Truthy(parseInt(s)) THEN parseInt(s) ELSE Num(0)

\* The decimal digits of a natural number.
RECURSIVE NatText(_)
NatText(n) ==
    IF n < 10 THEN <<Digits[n + 1]>> ELSE Append(NatText(n \div 10), Digits[(n % 10) + 1])

\* String(number), the number an integer or NaN.
NumberText(v) ==
    IF v.t = "NaN" THEN <<"N", "a", "N">>
    ELSE IF v.n < 0 THEN <<"-">> \o NatText(0 - v.n)
    ELSE NatText(v.n)

\* Number.prototype.toInt: parseInt(this), which reads the number's text.
numberToInt(v) == parseInt(NumberText(v))

\* An object's own toInt method; calling it returns the number n.
Method(n) == V("function", n, TOINT, <<>>)

\* String(object): '[object Object]'.
ObjectText == <<"[", "o", "b", "j", "e", "c", "t", " ", "O", "b", "j", "e", "c", "t", "]">>

\* Parse.int(input).  Reading input.toInt of null or undefined raises a
\* TypeError.
parseIntOf(input) ==
    IF input.t \in {"undefined", "null"} THEN TypeError
    ELSE IF TypeOf(Get(input, TOINT)) # "undefined"
    THEN CASE input.t = "string" -> stringToInt(input.s)
           [] input.t \in {"number", "NaN"} -> numberToInt(input)
           [] Get(input, TOINT).t = "function" -> Num(Get(input, TOINT).n)
           [] OTHER -> TypeError
    ELSE CASE input.t = "object" -> parseInt(ObjectText)
           [] OTHER -> NaN

Chars == {"3", "7", "x", "-", " "}

Texts == SeqsUpTo(Chars, MaxText)

\* An object with a toInt method of its own, and one without.
p1 == Obj(21, (TOINT :> Method(5)))

p2 == Obj(22, (A :> Num(1)))

ParseInputs ==
    {Str(s) : s \in Texts} \cup {Num(0), Num(12), Num(-4), NaN, p1, p2, Null, Undefined}

\* ------------------------------------------------------------ actions

Init ==
    /\ pc = "ready"
    /\ self \in Arrays
    /\ before = self
    /\ op = "none"
    /\ args = <<>>
    /\ ret = Undefined

FindIndex ==
    \E object \in Templates \cup {Null}, uid \in Uids :
        /\ pc = "ready"
        /\ pc' = "done"
        /\ op' = "findIndex"
        /\ args' = <<object, uid>>
        /\ ret' = findIndex(self, object, uid)
        /\ UNCHANGED <<self, before>>

Remove ==
    \E object \in Templates, uid \in Uids :
        /\ pc = "ready"
        /\ pc' = "done"
        /\ op' = "remove"
        /\ args' = <<object, uid>>
        /\ self' = remove(self, object, uid)[1]
        /\ ret' = remove(self, object, uid)[2]
        /\ UNCHANGED before

Replace ==
    \E object \in Templates, uid \in Uids :
        /\ pc = "ready"
        /\ pc' = "done"
        /\ op' = "replace"
        /\ args' = <<object, uid>>
        /\ self' = replace(self, object, uid)[1]
        /\ ret' = replace(self, object, uid)[2]
        /\ UNCHANGED before

Next == FindIndex \/ Remove \/ Replace

Spec == Init /\ [][Next]_vars

InitContains ==
    /\ pc = "ready"
    /\ self \in MixedArrays
    /\ before = self
    /\ op = "none"
    /\ args = <<>>
    /\ ret = Undefined

ContainsString ==
    \E query \in Queries, caseSensitive \in Flags :
        /\ pc = "ready"
        /\ pc' = "done"
        /\ op' = "containsString"
        /\ args' = <<Str(query), caseSensitive>>
        /\ ret' = containsString(self, query, caseSensitive)
        /\ UNCHANGED <<self, before>>

SpecContains == InitContains /\ [][ContainsString]_vars

\* A call of a function that has no receiver array.
InitPure ==
    /\ pc = "ready"
    /\ self = <<>>
    /\ before = <<>>
    /\ op = "none"
    /\ args = <<>>
    /\ ret = Undefined

\* objectIndex(object, index) and Object.index(object, index).
ObjectIndex ==
    \E object \in Mappings, segs \in SegLists :
        /\ pc = "ready"
        /\ pc' = "done"
        /\ op' = "objectIndex"
        /\ args' = <<object, Str(JoinDots(segs)), segs>>
        /\ ret' = objectIndex(object, JoinDots(segs))
        /\ UNCHANGED <<self, before>>

\* object.index(index).
IndexMethod ==
    \E object \in Mappings, segs \in SegLists :
        /\ pc = "ready"
        /\ pc' = "done"
        /\ op' = "index"
        /\ args' = <<object, Str(JoinDots(segs)), segs>>
        /\ ret' = indexMethod(object, JoinDots(segs))
        /\ UNCHANGED <<self, before>>

SpecIndex == InitPure /\ [][ObjectIndex \/ IndexMethod]_vars

Format ==
    \E this \in FormatTemplates, arguments \in FormatArgs :
        /\ pc = "ready"
        /\ pc' = "done"
        /\ op' = "format"
        /\ args' = <<this, arguments>>
        /\ ret' = Str(format(this, arguments))
        /\ UNCHANGED <<self, before>>

SpecFormat == InitPure /\ [][Format]_vars

ParseInt ==
    \E input \in ParseInputs :
        /\ pc = "ready"
        /\ pc' = "done"
        /\ op' = "Parse.int"
        /\ args' = <<input>>
        /\ ret' = parseIntOf(input)
        /\ UNCHANGED <<self, before>>

SpecParse == InitPure /\ [][ParseInt]_vars

\* ------------------------------------------------------------ properties

\* The arguments of the call made.
ArgObject == args[1]

ArgUid == UidOf(args[2])

\* An element has the identity value of the template: it is an object with
\* a value under the identity field, strictly equal to the template's.
SameIdentity(item, object, uid) ==
    /\ item.t = "object"
    /\ objectIndex(item, uid).t # "undefined"
    /\ objectIndex(object, uid).t # "undefined"
    /\ StrictEq(objectIndex(item, uid), objectIndex(object, uid))

\* The positions (from 1) of arr whose element has the template's identity.
Matches(arr, object, uid) == {i \in 1..Len(arr) : SameIdentity(arr[i], object, uid)}

\* C1: findIndex returns a valid index of the array, that of an element with
\* the template's identity value, if and only if some element has that
\* identity value; otherwise it returns the not-found value false.
C1_FindIndexIffPresent ==
    op = "findIndex" =>
        IF Matches(self, ArgObject, ArgUid) # {}
        THEN /\ ret.t = "number"
             /\ ret.n >= 0 /\ ret.n < Len(self)
             /\ ret.n + 1 \in Matches(self, ArgObject, ArgUid)
        ELSE ret = False

\* A search whose only match is the element at index 0 of a longer array.
C1_Witness ==
    /\ op = "findIndex"
    /\ ret = Num(0)
    /\ Len(self) = 2
    /\ Matches(self, ArgObject, ArgUid) = {1}

\* C2: when several elements have the template's identity value, findIndex
\* returns the position of the first of them (the smallest matching index).
C2_FindIndexReturnsFirst ==
    (op = "findIndex" /\ Matches(self, ArgObject, ArgUid) # {}) =>
        /\ ret.t = "number"
        /\ \A i \in Matches(self, ArgObject, ArgUid) : ret.n + 1 <= i

\* C3: remove, when some element has the template's identity value (at any
\* position, 0 included), deletes exactly one element and returns true, and
\* leaves no element with that identity value if only one had it; when none
\* has it, the array is unchanged and false is returned.
C3_RemoveDeletesOne ==
    op = "remove" =>
        IF Matches(before, ArgObject, ArgUid) # {}
        THEN /\ Len(self) = Len(before) - 1
             /\ ret = True
             /\ Cardinality(Matches(before, ArgObject, ArgUid)) = 1
                    => Matches(self, ArgObject, ArgUid) = {}
        ELSE self = before /\ ret = False

\* C4: replace, when some element has the object's identity value, puts the
\* object at the index of a match, and changes neither the length nor any
\* other element.
C4_ReplaceInPlace ==
    (op = "replace" /\ Matches(before, ArgObject, ArgUid) # {}) =>
        /\ Len(self) = Len(before)
        /\ \E i \in Matches(before, ArgObject, ArgUid) :
               /\ self[i] = ArgObject
               /\ \A j \in 1..Len(before) : j # i => self[j] = before[j]

\* C5: replace, when no element has the object's identity value, appends the
\* object (length + 1, the earlier elements as they were, in order) and
\* returns the array itself.
C5_ReplaceAppends ==
    (op = "replace" /\ Matches(before, ArgObject, ArgUid) = {}) =>
        /\ self = Append(before, ArgObject)
        /\ ret = ThisArray

\* C6: findIndex with a template that has no value under the identity field
\* returns false, never an index, also when element 0 has no such value.
C6_AbsentIdentityNotFound ==
    (op = "findIndex" /\ objectIndex(ArgObject, ArgUid).t = "undefined") =>
        ret = False

\* A template without id searched for in an array whose element 0 is an
\* object without id too.
C6_Witness ==
    /\ op = "findIndex"
    /\ ArgObject = o4
    /\ ArgUid = ID
    /\ Len(self) >= 2
    /\ self[1].t = "object"
    /\ objectIndex(self[1], ID).t = "undefined"
    /\ ret = False

\* An element can do contains: it is a string.
HasContains(item) == item.t = "string"

\* C8: containsString returns, in the array's order, exactly the elements
\* that have a contains method and whose contains(query, caseSensitive)
\* holds; the other elements (numbers, objects, null, undefined) are left
\* out and raise no error.
C8_ContainsStringFilters ==
    op = "containsString" =>
        /\ ret.t = "array"
        /\ ret.p = SelectSeq(self, LAMBDA item :
                       HasContains(item) /\ contains(item.s, args[1].s, args[2]))

\* Indexing by hand: each segment in turn is looked up among the keys the
\* mapping reached so far holds; a segment it does not hold, or a value that
\* is no mapping, gives undefined.
RECURSIVE ByHand(_, _)
ByHand(v, segs) ==
    IF segs = <<>> THEN v
    ELSE IF v.t = "object" /\ Head(segs) \in DOMAIN v.p
    THEN ByHand(v.p[Head(segs)], Tail(segs))
    ELSE Undefined

\* C7: objectIndex(M, P), and M.index(P), is the value reached by indexing
\* each segment of P in turn, and undefined, with nothing raised, as soon as
\* a segment is missing from the mapping reached so far.
C7_ObjectIndexByHand ==
    op \in {"objectIndex", "index"} => ret = ByHand(args[1], args[3])

\* The template with each placeholder {i}, i below the number of arguments,
\* replaced by argument i, read off the template itself from position i
\* (from 1) on; the other placeholders stay.
RECURSIVE Substituted(_, _, _)
Substituted(s, arguments, i) ==
    IF i > Len(s) THEN <<>>
    ELSE IF \E k \in 0..(Len(arguments) - 1) :
                i + 2 <= Len(s) /\ SubSeq(s, i, i + 2) = Placeholder(k)
    THEN LET k == CHOOSE k \in 0..(Len(arguments) - 1) : SubSeq(s, i, i + 2) = Placeholder(k)
         IN arguments[k + 1] \o Substituted(s, arguments, i + 3)
    ELSE <<s[i]>> \o Substituted(s, arguments, i + 1)

\* C9: format returns the template with every placeholder {i} of the
\* template replaced by the text of argument i, also when that text holds a
\* placeholder itself, and with the placeholders that have no argument left
\* as they are.
C9_FormatSubstitutes ==
    op = "format" => ret = Str(Substituted(args[1], args[2], 1))

\* C10: Parse.int raises no error on any input, null and undefined
\* included; it returns the result of the input's own toInt when the input
\* has one; for a string that is the value of the leading numeric prefix,
\* and 0, never NaN, when there is none.
C10_ParseIntTotal ==
    op = "Parse.int" =>
        /\ ret.t # "throw"
        /\ args[1].t = "string" => ret.t = "number"
        /\ (args[1].t = "string" /\ parseInt(args[1].s).t = "NaN") => ret = Num(0)
        /\ (args[1].t = "object" /\ TOINT \in DOMAIN args[1].p)
               => ret = Num(args[1].p[TOINT].n)

====
